---- MODULE Spec2Model ----
(***************************************************************************)
(* Model of trt::Img2Img (src/src/tensorrt/img2img.cpp): the geometry that *)
(* load() derives from the render configuration and the engine's tensor    *)
(* shapes, calculateTiles, padRoi, createTileWeights, applyBlending, the   *)
(* augmentation codec, infer and the batch loop of render.                 *)
(*                                                                         *)
(* Images are matrices of exact rationals (a pixel stands for its three    *)
(* channels, which every operation treats alike); floating-point rounding  *)
(* of pixel values is not modelled.  Sizes are small so that TLC can       *)
(* enumerate every pixel; the geometry operators take any size.            *)
(***************************************************************************)
EXTENDS Integers, Sequences, FiniteSets, TLC

----------------------------------------------------------------------------
(* Exact arithmetic.                                                       *)

Abs(n) == IF n < 0 THEN -n ELSE n

Min(a, b) == IF a < b THEN a ELSE b

Max(a, b) == IF a > b THEN a ELSE b

RECURSIVE Gcd(_, _)
Gcd(a, b) == IF b = 0 THEN a ELSE Gcd(b, a % b)

\* A rational is <<numerator, denominator>>, denominator > 0, in lowest terms.
Q(n, d) ==
    LET g == Gcd(Abs(n), Abs(d))
        s == IF d < 0 THEN -1 ELSE 1
    IN  IF n = 0 THEN <<0, 1>> ELSE <<(s * n) \div g, (s * d) \div g>>

QInt(n) == <<n, 1>>

\* Sum and product, reduced before the terms are multiplied out.
QAdd(a, b) ==
    LET g == Gcd(a[2], b[2])
    IN  Q(a[1] * (b[2] \div g) + b[1] * (a[2] \div g), (a[2] \div g) * b[2])

QMul(a, b) ==
    LET g1 == Gcd(Abs(a[1]), b[2])
        g2 == Gcd(Abs(b[1]), a[2])
    IN  Q((a[1] \div g1) * (b[1] \div g2), (a[2] \div g2) * (b[2] \div g1))

\* std::ceil of the real n/d, d > 0.
CeilDiv(n, d) == -((-n) \div d)

\* std::lround of the real n/d, d > 0: to nearest, halves away from zero.
LRound(n, d) ==
    IF n >= 0 THEN (2 * n + d) \div (2 * d)
              ELSE -((2 * (-n) + d) \div (2 * d))

\* C++ int division (truncation toward zero), used by the centring offset.
TruncDiv(n, d) == IF n >= 0 THEN n \div d ELSE -((-n) \div d)

----------------------------------------------------------------------------
(* Geometry derived by load() from the configuration and the engine.       *)
(* A configuration cfg is a record                                         *)
(*   width, height   : the input tile size (renderConfig.width/height,     *)
(*                     which load sets as the engine's input shape)        *)
(*   outWidth, outHeight : the engine's output tensor width and height     *)
(*   scaling         : [x, y]   integer scale factors                      *)
(*   overlap         : [x, y]   overlap fractions, each a rational         *)
(*   nbBatches, tta  : batch size and the augmentation flag                *)

inputTileSize(cfg) == [width |-> cfg.width, height |-> cfg.height]

outputTileSize(cfg) == [width |-> cfg.outWidth, height |-> cfg.outHeight]

\* Both components are computed from inputTileSize.width (lines 290-291).
scaledOutputTileSize(cfg) ==
    [width  |-> inputTileSize(cfg).width * cfg.scaling.x,
     height |-> inputTileSize(cfg).width * cfg.scaling.y]

scaledInputTileSize(cfg) ==
    [width  |-> LRound(outputTileSize(cfg).width * inputTileSize(cfg).width,
                       scaledOutputTileSize(cfg).width),
     height |-> LRound(outputTileSize(cfg).height * inputTileSize(cfg).height,
                       scaledOutputTileSize(cfg).height)]

inputOverlap(cfg) ==
    [x |-> LRound(inputTileSize(cfg).width * cfg.overlap.x[1], cfg.overlap.x[2]),
     y |-> LRound(inputTileSize(cfg).height * cfg.overlap.y[1], cfg.overlap.y[2])]

scaledOutputOverlap(cfg) ==
    [x |-> LRound(scaledOutputTileSize(cfg).width * cfg.overlap.x[1], cfg.overlap.x[2]),
     y |-> LRound(scaledOutputTileSize(cfg).height * cfg.overlap.y[1], cfg.overlap.y[2])]

\* The divisor of calculateTiles: scaled input tile size minus input overlap.
strideOf(cfg) ==
    [x |-> scaledInputTileSize(cfg).width - inputOverlap(cfg).x,
     y |-> scaledInputTileSize(cfg).height - inputOverlap(cfg).y]

----------------------------------------------------------------------------
(* Matrices (cv::cuda::GpuMat): rows x cols of pixels, indexed from 0.     *)
(* Every matrix the code makes has three channels (CV_32FC3, or the type   *)
(* of the 3-channel source); a caller of infer may pass others.            *)

Mat(h, w, F(_, _)) ==
    [rows |-> h, cols |-> w, channels |-> 3,
     px |-> [r \in 0 .. h - 1 |-> [c \in 0 .. w - 1 |-> F(r, c)]]]

Filled(size, v) == Mat(size.height, size.width, LAMBDA r, c : v)

SameSize(a, b) == a.rows = b.rows /\ a.cols = b.cols

\* cv::cuda::add and cv::cuda::multiply on matrices of one size.
MatAdd(a, b) == Mat(a.rows, a.cols, LAMBDA r, c : QAdd(a.px[r][c], b.px[r][c]))

MatMul(a, b) == Mat(a.rows, a.cols, LAMBDA r, c : QMul(a.px[r][c], b.px[r][c]))

MatScale(a, q) == Mat(a.rows, a.cols, LAMBDA r, c : QMul(a.px[r][c], q))

\* GpuMat::operator()(Rect): the roi must lie inside the matrix.
RoiOk(m, rect) ==
    /\ 0 <= rect.x /\ 0 <= rect.width /\ rect.x + rect.width <= m.cols
    /\ 0 <= rect.y /\ 0 <= rect.height /\ rect.y + rect.height <= m.rows

SubMat(m, rect) ==
    Mat(rect.height, rect.width, LAMBDA r, c : m.px[rect.y + r][rect.x + c])

\* cv::cuda::flip: flipCode 0 mirrors the rows (about the x axis), flipCode 1
\* mirrors the columns (about the y axis).
Flip(src, flipCode) ==
    IF flipCode = 0
    THEN Mat(src.rows, src.cols, LAMBDA r, c : src.px[src.rows - 1 - r][c])
    ELSE Mat(src.rows, src.cols, LAMBDA r, c : src.px[r][src.cols - 1 - c])

\* cv::cuda::flip called with dst the same buffer as src.  A build whose flip
\* has an in-place path gives the mirror image; one that runs the two-buffer
\* kernel on the one buffer reads pixels it has already written, which leaves
\* the far half as it was and mirrors it into the near half.
FlipSameBuffer(src, flipCode, inPlaceFlip) ==
    IF inPlaceFlip = "mirror" THEN Flip(src, flipCode)
    ELSE IF flipCode = 0
    THEN Mat(src.rows, src.cols, LAMBDA r, c :
             IF 2 * r < src.rows THEN src.px[src.rows - 1 - r][c] ELSE src.px[r][c])
    ELSE Mat(src.rows, src.cols, LAMBDA r, c :
             IF 2 * c < src.cols THEN src.px[r][src.cols - 1 - c] ELSE src.px[r][c])

\* cv::cuda::rotate(src, dst, dsize, angle, xShift, yShift): dst is cleared,
\* then source pixel (x, y) goes to
\*   (x cos a + y sin a + xShift, -x sin a + y cos a + yShift).
\* For the right angles used here the source of destination pixel (c, r) is:
RotateSrc(angle, xShift, yShift, r, c) ==
    CASE angle = 90  -> [x |-> yShift - r, y |-> c - xShift]
      [] angle = 180 -> [x |-> xShift - c, y |-> yShift - r]
      [] angle = 270 -> [x |-> r - yShift, y |-> xShift - c]

Rotate(src, dsize, angle, xShift, yShift) ==
    Mat(dsize.height, dsize.width, LAMBDA r, c :
        LET s == RotateSrc(angle, xShift, yShift, r, c)
        IN  IF 0 <= s.x /\ s.x < src.cols /\ 0 <= s.y /\ s.y < src.rows
            THEN src.px[s.y][s.x] ELSE QInt(0))

----------------------------------------------------------------------------
(* The augmentation codec (enum Augmentation, lines 757-766).              *)

AugNone == 0

AugFlipHorizontal == 1

AugFlipVertical == 2

AugRotate90 == 3

AugRotate180 == 4

AugRotate270 == 5

AugFlipHorizontalRotate90 == 6

AugFlipVerticalRotate90 == 7

applyAugmentation(src, dstSize, augmentationIndex) ==
    CASE augmentationIndex = AugFlipHorizontal -> Flip(src, 0)
      [] augmentationIndex = AugFlipVertical -> Flip(src, 1)
      [] augmentationIndex = AugRotate90 ->
            Rotate(src, dstSize, 90, 0, dstSize.height - 1)
      [] augmentationIndex = AugRotate180 ->
            Rotate(src, dstSize, 180, dstSize.width - 1, dstSize.height - 1)
      [] augmentationIndex = AugRotate270 ->
            Rotate(src, dstSize, 270, dstSize.width - 1, 0)
      [] augmentationIndex = AugFlipHorizontalRotate90 ->
            Rotate(Flip(src, 0), dstSize, 90, 0, dstSize.height - 1)
      [] augmentationIndex = AugFlipVerticalRotate90 ->
            Rotate(Flip(src, 1), dstSize, 90, 0, dstSize.height - 1)
      [] OTHER -> src

\* The inverse with the two rotations left as they are in applyAugmentation.
reverseAugmentationSameAngle(src, dstIsTmp, dstSize, augmentationIndex, inPlaceFlip) ==
    applyAugmentation(src, dstSize, augmentationIndex)

\* dstIsTmp: the caller passed the member tmpOutputMat as dst, the buffer the
\* two composite kinds also use for the intermediate rotation, so that their
\* final flip has one buffer as source and destination.
reverseAugmentation(src, dstIsTmp, dstSize, augmentationIndex, inPlaceFlip) ==
    CASE augmentationIndex = AugFlipHorizontal -> Flip(src, 0)
      [] augmentationIndex = AugFlipVertical -> Flip(src, 1)
      [] augmentationIndex = AugRotate90 ->
            Rotate(src, dstSize, 270, dstSize.width - 1, 0)
      [] augmentationIndex = AugRotate180 ->
            Rotate(src, dstSize, 180, dstSize.width - 1, dstSize.height - 1)
      [] augmentationIndex = AugRotate270 ->
            Rotate(src, dstSize, 90, 0, dstSize.height - 1)
      [] augmentationIndex = AugFlipHorizontalRotate90 ->
            LET tmp == Rotate(src, dstSize, 270, dstSize.width - 1, 0)
            IN  IF dstIsTmp THEN FlipSameBuffer(tmp, 0, inPlaceFlip) ELSE Flip(tmp, 0)
      [] augmentationIndex = AugFlipVerticalRotate90 ->
            LET tmp == Rotate(src, dstSize, 270, dstSize.width - 1, 0)
            IN  IF dstIsTmp THEN FlipSameBuffer(tmp, 1, inPlaceFlip) ELSE Flip(tmp, 1)
      [] OTHER -> src

----------------------------------------------------------------------------
(* calculateTiles (lines 704-741).                                         *)

\* The count rounded down.
tilingOfFloor(dimension, overlap, stride, lroundUndef) ==
    IF stride > 0 THEN (dimension - overlap) \div stride ELSE lroundUndef

\* lround(ceil(double(dimension - overlap) / stride)).  A zero stride divides
\* by zero: the quotient is an infinity or a NaN, whose conversion by lround
\* is not defined; lroundUndef is what the build returns for it.
tilingOf(dimension, overlap, stride, lroundUndef) ==
    IF stride > 0 THEN CeilDiv(dimension - overlap, stride)
    ELSE IF stride < 0 THEN CeilDiv(overlap - dimension, -stride)
    ELSE lroundUndef

inputTileRectOf(cfg, i, j) ==
    [x |-> -TruncDiv(inputTileSize(cfg).width - scaledInputTileSize(cfg).width, 2)
             + i * scaledInputTileSize(cfg).width - i * inputOverlap(cfg).x,
     y |-> -TruncDiv(inputTileSize(cfg).height - scaledInputTileSize(cfg).height, 2)
             + j * scaledInputTileSize(cfg).height - j * inputOverlap(cfg).y,
     width |-> inputTileSize(cfg).width,
     height |-> inputTileSize(cfg).height]

outputTileRectOf(cfg, outputRect, i, j) ==
    LET x == i * outputTileSize(cfg).width - i * scaledOutputOverlap(cfg).x
        y == j * outputTileSize(cfg).height - j * scaledOutputOverlap(cfg).y
    IN  [x |-> x,
         y |-> y,
         width |-> IF x + outputTileSize(cfg).width > outputRect.width
                   THEN outputRect.width - x ELSE outputTileSize(cfg).width,
         height |-> IF y + outputTileSize(cfg).height > outputRect.height
                    THEN outputRect.height - y ELSE outputTileSize(cfg).height]

\* lroundUndef is [x, y], one outcome for each axis.
\* The rectangles are appended column by column: i over tiling.x outside, j
\* over tiling.y inside.  tileCount is the product tiling.x * tiling.y even
\* when the loops append nothing.
calculateTiles(cfg, inputRect, outputRect, lroundUndef) ==
    LET tiling == [x |-> tilingOf(inputRect.width, inputOverlap(cfg).x,
                                  strideOf(cfg).x, lroundUndef.x),
                   y |-> tilingOf(inputRect.height, inputOverlap(cfg).y,
                                  strideOf(cfg).y, lroundUndef.y)]
        n == IF tiling.x > 0 /\ tiling.y > 0 THEN tiling.x * tiling.y ELSE 0
    IN  [tiling |-> tiling,
         tileCount |-> tiling.x * tiling.y,
         inputTileRects |->
             [k \in 1 .. n |->
                 inputTileRectOf(cfg, (k - 1) \div tiling.y, (k - 1) % tiling.y)],
         outputTileRects |->
             [k \in 1 .. n |->
                 outputTileRectOf(cfg, outputRect,
                                  (k - 1) \div tiling.y, (k - 1) % tiling.y)]]

----------------------------------------------------------------------------
(* padRoi (lines 539-576).                                                 *)

\* The border filled with zeros (BORDER_CONSTANT) instead.
copyMakeBorderConstant(src, top, bottom, left, right) ==
    Mat(src.rows + top + bottom, src.cols + left + right, LAMBDA r, c :
        IF /\ top <= r /\ r < top + src.rows /\ left <= c /\ c < left + src.cols
        THEN src.px[r - top][c - left] ELSE QInt(0))

\* cv::cuda::copyMakeBorder with BORDER_REPLICATE.
copyMakeBorder(src, top, bottom, left, right) ==
    Mat(src.rows + top + bottom, src.cols + left + right, LAMBDA r, c :
        src.px[Max(0, Min(src.rows - 1, r - top))][Max(0, Min(src.cols - 1, c - left))])

\* The result is [ok |-> TRUE, mat |-> tile], or [ok |-> FALSE] when the
\* clipped rectangle is no region of the input (cv::Exception).
padRoi(input, roi) ==
    LET br_x == roi.x + roi.width
        br_y == roi.y + roi.height
        left == IF roi.x < 0 THEN -roi.x ELSE 0
        top == IF roi.y < 0 THEN -roi.y ELSE 0
        right == IF br_x > input.cols THEN br_x - input.cols ELSE 0
        bottom == IF br_y > input.rows THEN br_y - input.rows ELSE 0
        tl_x == IF roi.x < 0 THEN 0 ELSE roi.x
        tl_y == IF roi.y < 0 THEN 0 ELSE roi.y
        width == roi.width - left - right
        height == roi.height - top - bottom
        clipped == [x |-> tl_x, y |-> tl_y, width |-> width, height |-> height]
    IN  IF roi.x < 0 \/ roi.y < 0 \/ br_x > input.cols \/ br_y > input.rows
        THEN IF RoiOk(input, clipped) /\ width > 0 /\ height > 0
             THEN [ok |-> TRUE,
                   mat |-> copyMakeBorder(SubMat(input, clipped), top, bottom, left, right)]
             ELSE [ok |-> FALSE]
        ELSE IF RoiOk(input, clipped)
             THEN [ok |-> TRUE, mat |-> SubMat(input, clipped)]
             ELSE [ok |-> FALSE]

----------------------------------------------------------------------------
(* createTileWeights (lines 578-601) and applyBlending (lines 743-755).    *)

WTop == 0

WRight == 1

WBottom == 2

WLeft == 3

\* Row i-1 (column i-1) of the Top (Left) mask is i/(overlap+1), i = 1..overlap.
topWeights(overlap, size) ==
    Mat(size.height, size.width, LAMBDA r, c :
        IF r < overlap.y THEN Q(r + 1, overlap.y + 1) ELSE QInt(1))

leftWeights(overlap, size) ==
    Mat(size.height, size.width, LAMBDA r, c :
        IF c < overlap.x THEN Q(c + 1, overlap.x + 1) ELSE QInt(1))

\* GpuMat::row(i - 1) and col(i - 1) throw when the index is past the mask.
weightsThrow(overlap, size) == overlap.y > size.height \/ overlap.x > size.width

createTileWeights(overlap, size) ==
    [k \in 0 .. 3 |->
        CASE k = WTop -> topWeights(overlap, size)
          [] k = WLeft -> leftWeights(overlap, size)
          [] k = WBottom -> Flip(topWeights(overlap, size), 0)
          [] k = WRight -> Flip(leftWeights(overlap, size), 1)]

\* The member weights: load calls createTileWeights with scaledOutputOverlap
\* and outputTileSize (line 309).
weightsOf(cfg) == createTileWeights(scaledOutputOverlap(cfg), outputTileSize(cfg))

\* Which of the four masks applyBlending multiplies in, in its order.
appliesLeft(srcRect, dstRect) == srcRect.x > dstRect.x

appliesTop(srcRect, dstRect) == srcRect.y > dstRect.y

appliesRight(srcRect, dstRect) == srcRect.x + srcRect.width < dstRect.width

appliesBottom(srcRect, dstRect) == srcRect.y + srcRect.height < dstRect.height

\* render passes one tile as src and dst, so each product is taken of the
\* result of the one before.
applyBlending(src, w, srcRect, dstRect) ==
    LET a == IF appliesLeft(srcRect, dstRect) THEN MatMul(src, w[WLeft]) ELSE src
        b == IF appliesTop(srcRect, dstRect) THEN MatMul(a, w[WTop]) ELSE a
        c == IF appliesRight(srcRect, dstRect) THEN MatMul(b, w[WRight]) ELSE b
    IN  IF appliesBottom(srcRect, dstRect) THEN MatMul(c, w[WBottom]) ELSE c

----------------------------------------------------------------------------
(* The executor and infer (lines 453-503).                                 *)

\* The engine is external: any function from an input tile to an output tile
\* of the engine's output size.  This one encodes, in each output pixel, the
\* input pixel it is scaled from and the pixel's own position, so that the
\* outputs of different tiles, and of one tile under different augmentations,
\* differ; the values lie in [0, 1) for the images the model draws.
Engine(tile, cfg) ==
    LET o == outputTileSize(cfg)
        n == o.width * o.height
    IN  Mat(o.height, o.width, LAMBDA r, c :
            QAdd(QMul(tile.px[(r * tile.rows) \div o.height][(c * tile.cols) \div o.width],
                      Q(1, 64)),
                 Q(r * o.width + c, 64 * n)))

\* The checks without the one of the width.
inferAcceptsAnyWidth(inputs, cfg) ==
    /\ Len(inputs) = cfg.nbBatches
    /\ \A k \in 1 .. Len(inputs) :
          /\ inputs[k].channels = cfg.channels
          /\ inputs[k].rows = cfg.height

\* The checks infer makes before it touches the executor (lines 455-480).
inferAccepts(inputs, cfg) ==
    /\ Len(inputs) = cfg.nbBatches
    /\ \A k \in 1 .. Len(inputs) :
          /\ inputs[k].channels = cfg.channels
          /\ inputs[k].rows = cfg.height
          /\ inputs[k].cols = cfg.width

\* imagesFromBlob of the output tensor: one output tile per batch slot.
inferOutputs(inputs, cfg) == [k \in 1 .. Len(inputs) |-> Engine(inputs[k], cfg)]

\* infer: the result, the caller's outputs vector afterwards, and how many
\* times the executor was invoked (the copy into the input tensor and
\* enqueueV3).  engineOk: whether enqueueV3 reports success.
infer(inputs, outputs, cfg, engineOk) ==
    IF ~inferAccepts(inputs, cfg)
    THEN [result |-> FALSE, outputs |-> outputs, invoked |-> 0]
    ELSE IF ~engineOk
    THEN [result |-> FALSE, outputs |-> outputs, invoked |-> 1]
    ELSE [result |-> TRUE, outputs |-> inferOutputs(inputs, cfg), invoked |-> 1]

----------------------------------------------------------------------------
(* render (lines 333-451).                                                 *)

ttaSize == 8

\* One step for a tile whatever the augmentation setting.
stepsPerTileOfOne(cfg) == 1

stepsPerTileOf(cfg) == IF cfg.tta THEN ttaSize ELSE 1

\* The loop bound without the rounding up to whole batches.
stepCountOfUnpadded(count, cfg) == count * stepsPerTileOf(cfg)

\* batchCount * batchSize, batchCount = lround(ceil(tileCount * stepsPerTile / batchSize)).
stepCountOf(count, cfg) ==
    CeilDiv(count * stepsPerTileOf(cfg), cfg.nbBatches) * cfg.nbBatches

overlappingOf(cfg) == cfg.overlap.x[1] # 0 \/ cfg.overlap.y[1] # 0

\* output.create(rows, cols, type): rows from scaling.x, cols from scaling.y.
canvasSizeOf(image, cfg) ==
    [height |-> image.rows * cfg.scaling.x, width |-> image.cols * cfg.scaling.y]

rectOf(m) == [x |-> 0, y |-> 0, width |-> m.cols, height |-> m.rows]

\* Lines 339-341: inputRect, outputRect and the call of calculateTiles.
planOf(image, cfg, lroundUndef) ==
    calculateTiles(cfg, rectOf(image),
                   [x |-> 0, y |-> 0, width |-> canvasSizeOf(image, cfg).width,
                    height |-> canvasSizeOf(image, cfg).height],
                   lroundUndef)

\* The padded region whatever the work item's augmentation.
workItemTilePlain(cfg, image, rect, augmentationIndex) == padRoi(image, rect).mat

\* Lines 368-377: the input tile of a work item of a real tile, the padded
\* region of the image, augmented when the item's augmentation is not None.
workItemTile(cfg, image, rect, augmentationIndex) ==
    IF cfg.tta /\ augmentationIndex # AugNone
    THEN applyAugmentation(padRoi(image, rect).mat, inputTileSize(cfg),
                           augmentationIndex)
    ELSE padRoi(image, rect).mat

\* The first slot's output whatever the index.
slotOutputFirst(outputs, index) == outputs[1]

\* outputTiles[batchIndex], line 401.
slotOutput(outputs, index) == outputs[index + 1]

\* cv::cuda::add(tile(0, 0, w, h), output(rect), output(rect)).
addTile(canvas, tile, rect) ==
    Mat(canvas.rows, canvas.cols, LAMBDA r, c :
        IF /\ rect.x <= c /\ c < rect.x + rect.width
           /\ rect.y <= r /\ r < rect.y + rect.height
        THEN QAdd(canvas.px[r][c], tile.px[r - rect.y][c - rect.x])
        ELSE canvas.px[r][c])

\* Both regions of the add must exist (GpuMat::operator()(Rect) asserts).
addTileOk(canvas, tile, rect) ==
    /\ RoiOk(canvas, rect)
    /\ RoiOk(tile, [x |-> 0, y |-> 0, width |-> rect.width, height |-> rect.height])

\* saturate_cast<uchar>: to nearest, halves to even, clamped to 0..255.
RoundHalfEven(n, d) ==
    LET q == n \div d
        rem == n - q * d
    IN  IF 2 * rem < d THEN q
        ELSE IF 2 * rem > d THEN q + 1
        ELSE IF q % 2 = 0 THEN q ELSE q + 1

\* The canvas left in its floating-point encoding.
convertToKept(m) == m

\* output.convertTo(output, CV_8UC3, 255.0): the channel swap that follows
\* permutes the three channels a pixel stands for.
convertTo(m) ==
    Mat(m.rows, m.cols, LAMBDA r, c :
        QInt(Max(0, Min(255, RoundHalfEven(255 * m.px[r][c][1], m.px[r][c][2])))))

----------------------------------------------------------------------------
(* State.                                                                  *)

VARIABLES
    inPlaceFlip,      \* the build: what flip does when dst is src
    pc,               \* where the object, or the call in progress, stands
    renderConfig,     \* the configuration load() stored
    input,            \* the image given to render
    output,           \* the caller's output buffer
    outputType,       \* its pixel type
    result,           \* what the last call returned: <<TRUE>>, <<FALSE>>, or
                      \* <<>> while none has
    tileCount, inputTileRects, outputTileRects,
    stepIndex, batchIndex,
    tileIndices,      \* the queue of (tileIndex, augmentationIndex)
    inputTiles, outputTiles,
    ttaOutputTile, tmpOutputMat,
    executorCalls,    \* executor invocations so far
    syncs,            \* stream.waitForCompletion() calls so far
    handed,           \* the last tile handed to blending: its index, the
                      \* step and slot it was handed at, its value
    added,            \* the tile indices added to the canvas, in order
    summed,           \* the last work item that entered ttaOutputTile
    codec,            \* a tile and its image under the augmentation codec
    buffers,          \* the member buffers: the device pointers, 0 for nullptr
    released,         \* the device pointers that have been freed
    refreed,          \* those freed again after that
    allocated,        \* how many device pointers have been allocated
    loads             \* how many times load has been called

vars ==
    <<inPlaceFlip, pc, renderConfig, input, output,
      outputType, result, tileCount, inputTileRects, outputTileRects,
      stepIndex, batchIndex, tileIndices, inputTiles, outputTiles,
      ttaOutputTile, tmpOutputMat, executorCalls, syncs, handed, added, summed,
      codec, buffers, released, refreed, allocated, loads>>

buildVars == <<inPlaceFlip>>

planVars == <<tileCount, inputTileRects, outputTileRects>>

loopVars == <<stepIndex, batchIndex, tileIndices, inputTiles, outputTiles>>

ttaVars == <<ttaOutputTile, tmpOutputMat>>

ghostVars == <<handed, added, summed>>

deviceVars == <<buffers, released, refreed, allocated, loads>>

----------------------------------------------------------------------------
(* The inputs the model draws.                                             *)

MaxImage == 3

MaxBatch == 3

\* Renders of at most this many work items (a tile, or a tile under one
\* augmentation) are followed.
MaxSteps == 16

\* Tile sizes small enough to enumerate every pixel; even, as the supported
\* ones (64, 256, 400, 640) are.
TileSizes == {2, 4}

Scalings == {[x |-> 1, y |-> 1], [x |-> 2, y |-> 2], [x |-> 1, y |-> 2]}

\* What static_cast<int>(lround(v)) may give for v an infinity or a NaN: the
\* low 32 bits of LONG_MIN or 0 (both 0), or those of LONG_MAX (-1).
LroundUndef == {0, -1}

\* Overlap fractions: none, the largest supported one, and a whole tile.
Overlaps == {<<0, 1>>, <<1, 8>>, <<1, 1>>}

\* An engine whose output tile is the scaled input tile less a border of
\* Borders input pixels on each side.
Borders == {0, 1}

configOf(t, b, s, f, n, a) ==
    [width |-> t, height |-> t, channels |-> 3,
     outWidth |-> s.x * (t - 2 * b), outHeight |-> s.y * (t - 2 * b),
     scaling |-> s, overlap |-> [x |-> f, y |-> f], nbBatches |-> n, tta |-> a]

TileShapes == {tb \in TileSizes \X Borders : 2 * tb[2] < tb[1]}

Configs ==
    {configOf(tb[1], tb[2], s, f, n, a) :
        tb \in TileShapes, s \in Scalings, f \in Overlaps,
        n \in 1 .. MaxBatch, a \in BOOLEAN}

\* An 8-bit image whose pixels all differ.
imageOf(w, h) == Mat(h, w, LAMBDA r, c : QInt(r * w + c + 1))

EmptyMat == Mat(0, 0, LAMBDA r, c : QInt(0))

NoConfig == [nbBatches |-> 0]

----------------------------------------------------------------------------
(* The object after construction: no engine, no configuration, the caller's *)
(* output buffer empty.                                                    *)

Constructed ==
    /\ pc = "constructed"
    /\ renderConfig = NoConfig
    /\ input = EmptyMat
    /\ output = EmptyMat
    /\ outputType = "none"
    /\ result = <<>>
    /\ tileCount = 0
    /\ inputTileRects = <<>>
    /\ outputTileRects = <<>>
    /\ stepIndex = 0
    /\ batchIndex = 0
    /\ tileIndices = <<>>
    /\ inputTiles = <<>>
    /\ outputTiles = <<>>
    /\ ttaOutputTile = EmptyMat
    /\ tmpOutputMat = EmptyMat
    /\ executorCalls = 0
    /\ syncs = 0
    /\ handed = <<>>
    /\ added = <<>>
    /\ summed = <<>>
    /\ codec = <<>>
    /\ buffers = <<>>
    /\ released = {}
    /\ refreed = {}
    /\ allocated = 0
    /\ loads = 0

Init ==
    /\ inPlaceFlip \in {"mirror", "overlap"}
    /\ Constructed

----------------------------------------------------------------------------
(* load (lines 153-331): the part after the engine is read, lines 277-326. *)
(* engineOk = FALSE: one of the steps before line 277 failed.  Here load   *)
(* is the first call on the object; the failures at the device buffers and *)
(* repeated calls are followed by LoadCall below.                          *)

Load(config, engineOk) ==
    /\ pc = "constructed"
    /\ IF ~engineOk
       THEN /\ pc' = "loadFailed"
            /\ result' = <<FALSE>>
            /\ UNCHANGED <<renderConfig, ttaVars>>
       ELSE /\ renderConfig' = config
            /\ IF weightsThrow(scaledOutputOverlap(config), outputTileSize(config))
               THEN /\ pc' = "loadFailed"
                    /\ result' = <<FALSE>>
                    /\ UNCHANGED ttaVars
               ELSE /\ ttaOutputTile' = IF config.tta
                                        THEN Filled(outputTileSize(config), QInt(0))
                                        ELSE EmptyMat
                    /\ tmpOutputMat' = IF config.tta
                                       THEN Filled(outputTileSize(config), QInt(0))
                                       ELSE EmptyMat
                    /\ pc' = "idle"
                    /\ result' = <<TRUE>>
    \* lines 250-274: one device buffer for each of the two tensors
    /\ buffers' = IF engineOk THEN <<allocated + 1, allocated + 2>> ELSE buffers
    /\ allocated' = IF engineOk THEN allocated + 2 ELSE allocated
    /\ loads' = loads + 1
    /\ UNCHANGED <<buildVars, input, output, outputType, planVars, loopVars,
                   executorCalls, syncs, ghostVars, codec, released, refreed>>

----------------------------------------------------------------------------
(* render, lines 333-358: allocate and clear the output, plan the tiles.   *)

\* lroundUndef: what the build's lround returns, on each axis, for an
\* infinity or a NaN.  A negative tileCount makes vector::reserve throw
\* std::length_error, which the handler at line 448 catches.
RenderBegin(image, lroundUndef) ==
    /\ pc = "idle"
    /\ planOf(image, renderConfig, lroundUndef).tileCount
          * stepsPerTileOf(renderConfig) <= MaxSteps
    /\ LET tiles == planOf(image, renderConfig, lroundUndef)
       IN  /\ input' = image
           /\ output' = Filled(canvasSizeOf(image, renderConfig), QInt(0))
           /\ outputType' = "CV_32FC3"
           /\ tileCount' = tiles.tileCount
           /\ inputTileRects' = tiles.inputTileRects
           /\ outputTileRects' = tiles.outputTileRects
           /\ pc' = IF tiles.tileCount < 0 THEN "threw"
                    ELSE IF 0 < stepCountOf(tiles.tileCount, renderConfig)
                    THEN "preprocess" ELSE "finalize"
           /\ result' = IF tiles.tileCount < 0 THEN <<FALSE>> ELSE <<>>
    /\ stepIndex' = 0
    /\ batchIndex' = 0
    /\ tileIndices' = <<>>
    /\ inputTiles' = <<>>
    /\ outputTiles' = <<>>
    /\ UNCHANGED <<buildVars, renderConfig, ttaVars, executorCalls,
                   syncs, ghostVars, codec, deviceVars>>

\* Lines 361-386: one step of the loop up to the test for a full batch, and
\* the loop's increment and test (line 360) when the batch is not full.
Preprocess ==
    /\ pc = "preprocess"
    /\ LET tileIndex == stepIndex \div stepsPerTileOf(renderConfig)
           augmentationIndex == stepIndex % stepsPerTileOf(renderConfig)
           slot == stepIndex % renderConfig.nbBatches
           known == tileIndex + 1 \in DOMAIN inputTileRects
           padded == padRoi(input, inputTileRects[tileIndex + 1])
           inputTile ==
               IF tileIndex < tileCount
               THEN workItemTile(renderConfig, input, inputTileRects[tileIndex + 1],
                                 augmentationIndex)
               ELSE Filled(inputTileSize(renderConfig), QInt(0))
       IN  /\ tileIndices' = Append(tileIndices, <<tileIndex, augmentationIndex>>)
           /\ IF tileIndex < tileCount /\ ~known
              THEN \* inputTileRects[tileIndex] past the end of the vector
                   /\ pc' = "undefined"
                   /\ UNCHANGED <<inputTiles, stepIndex, result>>
              ELSE IF tileIndex < tileCount /\ ~padded.ok
              THEN \* cv::Exception, caught at line 448
                   /\ pc' = "threw"
                   /\ result' = <<FALSE>>
                   /\ UNCHANGED <<inputTiles, stepIndex>>
              ELSE /\ inputTiles' = Append(inputTiles, inputTile)
                   /\ IF slot # renderConfig.nbBatches - 1
                      THEN /\ stepIndex' = stepIndex + 1
                           /\ pc' = IF stepIndex + 1 < stepCountOf(tileCount,
                                                                  renderConfig)
                                    THEN "preprocess" ELSE "finalize"
                      ELSE stepIndex' = stepIndex /\ pc' = "infer"
                   /\ UNCHANGED result
    /\ UNCHANGED <<buildVars, renderConfig, input, output, outputType,
                   planVars, batchIndex, outputTiles, ttaVars, executorCalls,
                   syncs, ghostVars, codec, deviceVars>>

\* Lines 388-393: the batch is inferred, or render returns false.
InferBatch(engineOk) ==
    /\ pc = "infer"
    /\ LET r == infer(inputTiles, outputTiles, renderConfig, engineOk)
       IN  /\ executorCalls' = executorCalls + r.invoked
           /\ outputTiles' = r.outputs
           /\ IF r.result
              THEN pc' = "postprocess" /\ UNCHANGED result
              ELSE pc' = "failed" /\ result' = <<FALSE>>
    /\ batchIndex' = 0
    /\ UNCHANGED <<buildVars, renderConfig, input, output, outputType,
                   planVars, stepIndex, tileIndices, inputTiles, ttaVars, syncs,
                   ghostVars, codec, deviceVars>>

\* The tile render hands to blending once a tile is fully rendered: the
\* executor's output without augmentation, and with it the buffer the pointer
\* outputTile is set to at the last augmentation (line 414).
finishedTile(outputTile, sum, tmp) == tmp

\* The buffer render passes to reverseAugmentation as dst (line 410), and the
\* buffer reverseAugmentation's composite kinds rotate into (lines 842, 848).
renderReverseDst == "tmpOutputMat"

reverseScratch == "tmpOutputMat"

\* Lines 404-417: what the augmentation step leaves in ttaOutputTile and
\* tmpOutputMat for the output of one work item.
ttaStep(outputTile, augmentationIndex, sum, tmp, cfg, flipBuild) ==
    IF augmentationIndex = 0
    THEN [sum |-> MatAdd(Filled(outputTileSize(cfg), QInt(0)), outputTile),
          tmp |-> tmp]
    ELSE LET reversed == reverseAugmentation(outputTile,
                                             renderReverseDst = reverseScratch,
                                             outputTileSize(cfg),
                                             augmentationIndex, flipBuild)
             total == MatAdd(reversed, sum)
         IN  [sum |-> IF augmentationIndex = ttaSize - 1
                      THEN MatScale(total, Q(1, ttaSize)) ELSE total,
              tmp |-> reversed]

\* Lines 396-430: one pass of the postprocessing loop.
Postprocess ==
    /\ pc = "postprocess"
    /\ IF batchIndex >= renderConfig.nbBatches
       THEN /\ pc' = "clear"
            /\ UNCHANGED <<batchIndex, tileIndices, outputTiles, ttaVars, output,
                           result, ghostVars>>
       ELSE LET tileIndex == Head(tileIndices)[1]
                augmentationIndex == Head(tileIndices)[2]
                outputTileRect == outputTileRects[tileIndex + 1]
                produced == slotOutput(outputTiles, batchIndex)
                tta == renderConfig.tta
                step == ttaStep(produced, augmentationIndex, ttaOutputTile,
                                tmpOutputMat, renderConfig, inPlaceFlip)
                last == ~tta \/ augmentationIndex = ttaSize - 1
                final == IF tta THEN finishedTile(produced, step.sum, step.tmp)
                         ELSE produced
                blended == IF overlappingOf(renderConfig)
                           THEN applyBlending(final, weightsOf(renderConfig),
                                              outputTileRect,
                                              rectOf(output))
                           ELSE final
            IN  IF tileIndex = tileCount
                THEN \* break: the entry stays in the queue
                     /\ pc' = "clear"
                     /\ UNCHANGED <<batchIndex, tileIndices, outputTiles, ttaVars,
                                    output, result, ghostVars>>
                ELSE /\ tileIndices' = Tail(tileIndices)
                     /\ ttaOutputTile' = IF tta THEN step.sum ELSE ttaOutputTile
                     /\ summed' = IF tta THEN Head(tileIndices) ELSE summed
                     /\ IF ~last
                        THEN /\ tmpOutputMat' = IF tta THEN step.tmp ELSE tmpOutputMat
                             /\ batchIndex' = batchIndex + 1
                             /\ pc' = "postprocess"
                             /\ UNCHANGED <<outputTiles, output, result, handed,
                                            added>>
                        ELSE /\ handed' = [tileIndex |-> tileIndex, step |-> stepIndex,
                                           slot |-> batchIndex, value |-> final]
                             \* applyBlending writes into the tile it is given
                             /\ tmpOutputMat' = IF tta THEN blended ELSE tmpOutputMat
                             /\ outputTiles' = IF tta THEN outputTiles
                                  ELSE [outputTiles EXCEPT ![batchIndex + 1] = blended]
                             /\ IF addTileOk(output, blended, outputTileRect)
                                THEN /\ output' = addTile(output, blended, outputTileRect)
                                     /\ added' = Append(added, tileIndex)
                                     /\ batchIndex' = batchIndex + 1
                                     /\ pc' = "postprocess"
                                     /\ UNCHANGED result
                                ELSE \* cv::Exception, caught at line 448
                                     /\ pc' = "threw"
                                     /\ result' = <<FALSE>>
                                     /\ UNCHANGED <<output, added, batchIndex>>
    /\ UNCHANGED <<buildVars, renderConfig, input, outputType, planVars,
                   stepIndex, inputTiles, executorCalls, syncs, codec, deviceVars>>

\* Lines 431-438 and the loop's increment and test.
ClearBatch ==
    /\ pc = "clear"
    /\ inputTiles' = <<>>
    /\ stepIndex' = stepIndex + 1
    /\ pc' = IF stepIndex + 1 < stepCountOf(tileCount, renderConfig)
             THEN "preprocess" ELSE "finalize"
    /\ UNCHANGED <<buildVars, renderConfig, input, output, outputType,
                   result, planVars, batchIndex, tileIndices, outputTiles, ttaVars,
                   executorCalls, syncs, ghostVars, codec, deviceVars>>

\* Lines 441-446: convert, reorder the channels, wait, return true.
Finalize ==
    /\ pc = "finalize"
    /\ output' = convertTo(output)
    /\ outputType' = "CV_8UC3"
    /\ syncs' = syncs + 1
    /\ result' = <<TRUE>>
    /\ pc' = "done"
    /\ UNCHANGED <<buildVars, renderConfig, input, planVars, loopVars,
                   ttaVars, executorCalls, ghostVars, codec, deviceVars>>

Next ==
    \/ \E config \in Configs, engineOk \in BOOLEAN : Load(config, engineOk)
    \/ \E w \in 1 .. MaxImage, h \in 1 .. MaxImage,
          ux \in LroundUndef, uy \in LroundUndef :
          RenderBegin(imageOf(w, h), [x |-> ux, y |-> uy])
    \/ Preprocess
    \/ \E engineOk \in BOOLEAN : InferBatch(engineOk)
    \/ Postprocess
    \/ ClearBatch
    \/ Finalize

Spec == Init /\ [][Next]_vars

----------------------------------------------------------------------------
(* Properties of render.                                                   *)

\* render has planned its tiles.
Planned == pc \notin {"constructed", "loadFailed", "idle"}

inRect(rect, x, y) ==
    /\ rect.x <= x /\ x < rect.x + rect.width
    /\ rect.y <= y /\ y < rect.y + rect.height

\* A configuration with a positive stride on both axes, one scale factor for
\* both axes, and an output overlap that is the input overlap scaled.
ValidTiling(cfg) ==
    /\ strideOf(cfg).x > 0 /\ strideOf(cfg).y > 0
    /\ cfg.scaling.x = cfg.scaling.y
    /\ scaledOutputOverlap(cfg).x = cfg.scaling.x * inputOverlap(cfg).x
    /\ scaledOutputOverlap(cfg).y = cfg.scaling.y * inputOverlap(cfg).y

\* C1: for every image of at least 1 x 1 pixels and every valid
\* configuration, calculateTiles returns at least one tile and every pixel of
\* the canvas lies in at least one output tile rectangle.
CanvasCovered ==
    (Planned /\ ValidTiling(renderConfig)) =>
        /\ tileCount >= 1
        /\ \A y \in 0 .. input.rows * renderConfig.scaling.y - 1,
              x \in 0 .. input.cols * renderConfig.scaling.x - 1 :
              \E k \in DOMAIN outputTileRects : inRect(outputTileRects[k], x, y)

\* C7: the canvas render allocates is as wide as the input times the x scale
\* factor and as high as the input times the y scale factor.
CanvasScaledPerAxis ==
    Planned =>
        /\ output.cols = input.cols * renderConfig.scaling.x
        /\ output.rows = input.rows * renderConfig.scaling.y

\* C8: when the executor fails for a batch, render stops there and the
\* caller's output buffer is as it was before the call: empty, of no type.
FailedRenderLeavesOutput ==
    pc = "failed" => output = EmptyMat /\ outputType = "none"

\* The sum of a tile's results for the augmentations 0 .. k: the executor's
\* output for augmentation 0 and, for each other one, the executor's output
\* with the augmentation undone.
RECURSIVE resultSum(_, _, _, _)
resultSum(cfg, image, rect, k) ==
    LET out == Engine(workItemTile(cfg, image, rect, k), cfg)
    IN  IF k = 0 THEN out
        ELSE MatAdd(reverseAugmentation(out, FALSE, outputTileSize(cfg), k, "mirror"),
                    resultSum(cfg, image, rect, k - 1))

averagedTile(cfg, image, rect) ==
    MatScale(resultSum(cfg, image, rect, ttaSize - 1), Q(1, ttaSize))

\* C2: with augmentation, the tile render composites is the average of the
\* tile's 8 results, the sum of the executor's output for augmentation 0 and
\* of its inverse-transformed outputs for augmentations 1 to 7, divided by 8.
AugmentedTileIsAverage ==
    (handed # <<>> /\ renderConfig.tta) =>
        handed.value = averagedTile(renderConfig, input,
                                    inputTileRects[handed.tileIndex + 1])

\* ttaOutputTile and tmpOutputMat after the outputs of a tile's work items
\* for the augmentations 0 .. k, taken one after the other.
RECURSIVE ttaFold(_, _, _, _, _)
ttaFold(cfg, image, rect, k, flipBuild) ==
    LET out == Engine(workItemTile(cfg, image, rect, k), cfg)
        before == IF k = 0
                  THEN [sum |-> Filled(outputTileSize(cfg), QInt(0)),
                        tmp |-> Filled(outputTileSize(cfg), QInt(0))]
                  ELSE ttaFold(cfg, image, rect, k - 1, flipBuild)
    IN  ttaStep(out, k, before.sum, before.tmp, cfg, flipBuild)

\* The canvas after the first k tiles when every work item is inferred in a
\* batch of its own, so that no batch is padded.
RECURSIVE renderOneByOne(_, _, _, _, _, _)
renderOneByOne(cfg, image, inRects, outRects, k, flipBuild) ==
    IF k = 0 THEN Filled(canvasSizeOf(image, cfg), QInt(0))
    ELSE LET canvas == renderOneByOne(cfg, image, inRects, outRects, k - 1, flipBuild)
             produced == Engine(workItemTile(cfg, image, inRects[k], ttaSize - 1), cfg)
             fold == ttaFold(cfg, image, inRects[k], ttaSize - 1, flipBuild)
             final == IF cfg.tta THEN finishedTile(produced, fold.sum, fold.tmp)
                      ELSE Engine(workItemTile(cfg, image, inRects[k], AugNone), cfg)
             blended == IF overlappingOf(cfg)
                        THEN applyBlending(final, weightsOf(cfg), outRects[k],
                                           rectOf(canvas))
                        ELSE final
         IN  addTile(canvas, blended, outRects[k])

\* C5: whatever the batch size, the tiles added to the canvas are real tiles,
\* the work items that enter the augmentation sum are those of real tiles,
\* the sum, once a tile's last item has entered it, is made of that tile's
\* own 8 results, and the canvas the loop leaves is the canvas of the same
\* render with no padding.
PaddingIsolated ==
    /\ \A i \in DOMAIN added : added[i] < tileCount
    /\ summed # <<>> => summed[1] < tileCount
    /\ (summed # <<>> /\ pc = "postprocess" /\ summed[2] = ttaSize - 1) =>
             ttaOutputTile = ttaFold(renderConfig, input,
                                        inputTileRects[summed[1] + 1], summed[2],
                                        inPlaceFlip).sum
    /\ pc = "finalize" =>
          output = renderOneByOne(renderConfig, input, inputTileRects,
                                  outputTileRects, Max(tileCount, 0), inPlaceFlip)

\* A render with augmentation whose last batch of three was padded has
\* composited its tiles.
PaddingIsolatedWitness ==
    /\ pc = "finalize"
    /\ renderConfig.tta /\ renderConfig.nbBatches = 3
    /\ tileCount >= 2 /\ Len(added) = tileCount
    /\ (tileCount * ttaSize) % 3 # 0

\* C6: without augmentation, the tile handed to blending is the executor's
\* output for the batch slot that holds the tile's input, and the
\* augmentation buffers are never written.
RawOutputHanded ==
    (renderConfig # NoConfig /\ ~renderConfig.tta) =>
        /\ ttaOutputTile = EmptyMat /\ tmpOutputMat = EmptyMat
        /\ (handed # <<>> /\ handed.step = stepIndex /\ inputTiles # <<>>) =>
              /\ inputTiles[handed.slot + 1] =
                     padRoi(input, inputTileRects[handed.tileIndex + 1]).mat
              /\ handed.value = Engine(inputTiles[handed.slot + 1], renderConfig)

\* A tile other than the first has just been handed over from a slot other
\* than the first.
RawOutputHandedWitness ==
    /\ renderConfig # NoConfig /\ ~renderConfig.tta
    /\ handed # <<>> /\ handed.step = stepIndex /\ inputTiles # <<>>
    /\ handed.slot >= 1 /\ handed.tileIndex >= 1

\* C10: with a stride of zero or less on an axis, load fails, or render
\* fails before it has planned or submitted a tile.
NonPositiveStrideRejected ==
    (renderConfig # NoConfig
        /\ (strideOf(renderConfig).x <= 0 \/ strideOf(renderConfig).y <= 0)) =>
        \/ pc \in {"loadFailed", "idle"}
        \/ /\ result = <<FALSE>>
           /\ tileCount = 0 /\ tileIndices = <<>> /\ executorCalls = 0

----------------------------------------------------------------------------
(* infer called by a user of the class.                                    *)

MaxCalls == 2

\* Engines of each tile size, scale 1 and 2, for each batch size.
InferConfigs ==
    {configOf(t, 0, s, <<0, 1>>, n, FALSE) :
        t \in TileSizes, s \in {[x |-> 1, y |-> 1], [x |-> 2, y |-> 2]},
        n \in 1 .. MaxBatch}

\* A tile of a size, or a channel count, other than the configured one.
OtherTiles(cfg) ==
    {[imageOf(cfg.width, cfg.height) EXCEPT !.channels = 1],
     imageOf(cfg.width, cfg.height + 2),
     imageOf(cfg.width + 2, cfg.height)}

\* Up to one tile more than a batch, with at most one tile that is off.
InferInputs(cfg) ==
    UNION {{[k \in 1 .. n |-> imageOf(cfg.width, cfg.height)]}
           \cup {[k \in 1 .. n |-> IF k = p THEN b ELSE imageOf(cfg.width, cfg.height)] :
                     p \in 1 .. n, b \in OtherTiles(cfg)} :
           n \in 0 .. MaxBatch + 1}

\* infer (lines 453-503) on the caller's two vectors, here inputTiles and
\* outputTiles.
InferCall(inputs, engineOk) ==
    /\ pc = "idle"
    /\ executorCalls < MaxCalls
    /\ LET r == infer(inputs, outputTiles, renderConfig, engineOk)
       IN  /\ inputTiles' = inputs
           /\ outputTiles' = r.outputs
           /\ executorCalls' = executorCalls + r.invoked
           /\ result' = <<r.result>>
    /\ UNCHANGED <<buildVars, pc, renderConfig, input, output, outputType,
                   planVars, stepIndex, batchIndex, tileIndices, ttaVars, syncs,
                   ghostVars, codec, deviceVars>>

InitInfer ==
    /\ inPlaceFlip = "mirror"
    /\ Constructed

NextInfer ==
    \/ \E config \in InferConfigs, engineOk \in BOOLEAN : Load(config, engineOk)
    \/ /\ pc = "idle"
       /\ \E inputs \in InferInputs(renderConfig), engineOk \in BOOLEAN :
             InferCall(inputs, engineOk)

SpecInfer == InitInfer /\ [][NextInfer]_vars

\* The number of tiles is not the batch size, or a tile's channel count,
\* height or width is not the configured one.
Mismatched(inputs, cfg) ==
    \/ Len(inputs) # cfg.nbBatches
    \/ \E k \in DOMAIN inputs :
          \/ inputs[k].channels # cfg.channels
          \/ inputs[k].rows # cfg.height
          \/ inputs[k].cols # cfg.width

\* C9: a call of infer whose input is mismatched returns failure, does not
\* invoke the executor and leaves the outputs as they were.
InferValidatesFirst ==
    [][(pc = "idle" /\ pc' = "idle" /\ Mismatched(inputTiles', renderConfig)) =>
          /\ result' = <<FALSE>>
          /\ executorCalls' = executorCalls
          /\ outputTiles' = outputTiles]_vars

\* After a call that produced outputs, a call with a full batch in which
\* one tile is off has been refused.
InferValidatesFirstWitness ==
    /\ pc = "idle" /\ result = <<FALSE>>
    /\ executorCalls = 1 /\ outputTiles # <<>>
    /\ Len(inputTiles) = renderConfig.nbBatches
    /\ Mismatched(inputTiles, renderConfig)

----------------------------------------------------------------------------
(* The augmentation codec applied to a tile and undone.                    *)

\* Square tiles whose pixels all differ, and the 2 x 2 tiles of zeros and ones.
CodecTiles ==
    {imageOf(t, t) : t \in TileSizes}
    \cup {Mat(2, 2, LAMBDA r, c : QInt(b[2 * r + c + 1])) :
             b \in [1 .. 4 -> {0, 1}]}

\* applyAugmentation (lines 768-810) on a tile.
CodecApply(t, k) ==
    /\ pc = "constructed"
    /\ codec = <<>>
    /\ codec' = [stage |-> "applied", src |-> t, augmentationIndex |-> k,
                 forward |-> applyAugmentation(t, [width |-> t.cols,
                                                   height |-> t.rows], k)]
    /\ UNCHANGED <<buildVars, pc, renderConfig, input, output, outputType, result,
                   planVars, loopVars, ttaVars, executorCalls, syncs, ghostVars,
                   deviceVars>>

\* reverseAugmentation (lines 812-854) on the augmented tile; dstIsTmp as in
\* reverseAugmentation.
CodecReverse(dstIsTmp) ==
    /\ codec # <<>>
    /\ codec.stage = "applied"
    /\ codec' = [stage |-> "reversed", src |-> codec.src,
                 augmentationIndex |-> codec.augmentationIndex,
                 forward |-> codec.forward, dstIsTmp |-> dstIsTmp,
                 back |-> reverseAugmentation(codec.forward, dstIsTmp,
                              [width |-> codec.src.cols, height |-> codec.src.rows],
                              codec.augmentationIndex, inPlaceFlip)]
    /\ UNCHANGED <<buildVars, pc, renderConfig, input, output, outputType, result,
                   planVars, loopVars, ttaVars, executorCalls, syncs, ghostVars,
                   deviceVars>>

NextCodec ==
    \/ \E t \in CodecTiles, k \in 0 .. ttaSize - 1 : CodecApply(t, k)
    \/ \E dstIsTmp \in BOOLEAN : CodecReverse(dstIsTmp)

SpecCodec == Init /\ [][NextCodec]_vars

sizeOf(m) == [width |-> m.cols, height |-> m.rows]

----------------------------------------------------------------------------
(* The tile plan and the blend masks at the supported sizes.  The image is *)
(* its size only, and render is followed as far as the plan.               *)

MaxGrid == 5

\* The choices of the command line (main.cpp): tile size, scale, blend.
SupportedTileSizes == {64, 256, 400, 640}

SupportedScales == {1, 2, 4}

SupportedOverlaps == {<<0, 1>>, <<1, 32>>, <<1, 16>>, <<1, 8>>}

\* --batchSize takes any positive number; the plan does not read it.
SupportedBatches == {4}

SupportedConfigs ==
    {configOf(t, 0, [x |-> s, y |-> s], f, n, FALSE) :
        t \in SupportedTileSizes, s \in SupportedScales, f \in SupportedOverlaps,
        n \in SupportedBatches}

\* An image of a size whose pixels are left out.
headerOf(w, h) == [rows |-> h, cols |-> w, channels |-> 3, px |-> <<>>]

\* The narrowest and the widest extent that need n tiles, n = 1 .. MaxGrid.
\* And the width of a camera frame (main.cpp sets 640 x 480).
SeamExtents(overlap, stride) ==
    {n * stride + overlap + d : n \in 0 .. MaxGrid - 1, d \in {1, stride}}
    \cup {640}

\* Lines 335-341 of render on an image of w x h pixels.
PlanTiles(w, h, lroundUndef) ==
    /\ pc = "idle"
    /\ LET tiles == planOf(headerOf(w, h), renderConfig, lroundUndef)
           size == canvasSizeOf(headerOf(w, h), renderConfig)
       IN  /\ input' = headerOf(w, h)
           /\ output' = headerOf(size.width, size.height)
           /\ outputType' = "CV_32FC3"
           /\ tileCount' = tiles.tileCount
           /\ inputTileRects' = tiles.inputTileRects
           /\ outputTileRects' = tiles.outputTileRects
    /\ pc' = "planned"
    /\ UNCHANGED <<buildVars, renderConfig, result, loopVars, ttaVars,
                   executorCalls, syncs, ghostVars, codec, deviceVars>>

NextTiles ==
    \/ \E config \in SupportedConfigs, engineOk \in BOOLEAN : Load(config, engineOk)
    \/ /\ pc = "idle"
       /\ \E w \in SeamExtents(inputOverlap(renderConfig).x, strideOf(renderConfig).x),
             h \in SeamExtents(inputOverlap(renderConfig).y, strideOf(renderConfig).y),
             ux \in LroundUndef, uy \in LroundUndef :
             PlanTiles(w, h, [x |-> ux, y |-> uy])

SpecTiles == InitInfer /\ [][NextTiles]_vars

\* b is the tile next to a on its right (below it) in the grid.
rightOf(rects, a, b) ==
    /\ rects[a].y = rects[b].y /\ rects[a].x < rects[b].x
    /\ \A c \in DOMAIN rects :
          ~(rects[c].y = rects[a].y /\ rects[a].x < rects[c].x
               /\ rects[c].x < rects[b].x)

belowOf(rects, a, b) ==
    /\ rects[a].x = rects[b].x /\ rects[a].y < rects[b].y
    /\ \A c \in DOMAIN rects :
          ~(rects[c].x = rects[a].x /\ rects[a].y < rects[c].y
               /\ rects[c].y < rects[b].y)

\* The weight mask k gives pixel (r, c) of a tile: the mask's when
\* applyBlending applies it, 1 when it does not.
maskWeight(cfg, k, applied, r, c) ==
    IF applied THEN weightsOf(cfg)[k].px[r][c] ELSE QInt(1)

\* C3: for two tiles next to each other in a row, the Right mask of the left
\* one and the Left mask of the right one, each where applyBlending applies
\* it, add up to 1 at every canvas column the two tiles share; and the same
\* for Bottom and Top down a column.
SeamWeightsSumToOne ==
    pc = "planned" =>
        \A a \in DOMAIN outputTileRects, b \in DOMAIN outputTileRects :
            LET A == outputTileRects[a]
                B == outputTileRects[b]
                D == rectOf(output)
            IN  /\ rightOf(outputTileRects, a, b) =>
                      \A x \in B.x .. Min(A.x + A.width, B.x + B.width) - 1 :
                          QAdd(maskWeight(renderConfig, WRight,
                                          appliesRight(A, D), 0, x - A.x),
                               maskWeight(renderConfig, WLeft,
                                          appliesLeft(B, D), 0, x - B.x)) = QInt(1)
                /\ belowOf(outputTileRects, a, b) =>
                      \A y \in B.y .. Min(A.y + A.height, B.y + B.height) - 1 :
                          QAdd(maskWeight(renderConfig, WBottom,
                                          appliesBottom(A, D), y - A.y, 0),
                               maskWeight(renderConfig, WTop,
                                          appliesTop(B, D), y - B.y, 0)) = QInt(1)

\* The rectangles are inside the canvas, they are all the products of their
\* column extents with their row extents, and the extents leave no canvas
\* column and no canvas row out: their union is the canvas.
CoverExactly(rects, canvas) ==
    /\ \A k \in DOMAIN rects :
          /\ 0 <= rects[k].x /\ rects[k].x + rects[k].width <= canvas.width
          /\ 0 <= rects[k].y /\ rects[k].y + rects[k].height <= canvas.height
    /\ \A a \in DOMAIN rects, b \in DOMAIN rects :
          \E k \in DOMAIN rects :
              /\ rects[k].x = rects[a].x /\ rects[k].width = rects[a].width
              /\ rects[k].y = rects[b].y /\ rects[k].height = rects[b].height
    /\ \A x \in 0 .. canvas.width - 1 :
          \E k \in DOMAIN rects :
              rects[k].x <= x /\ x < rects[k].x + rects[k].width
    /\ \A y \in 0 .. canvas.height - 1 :
          \E k \in DOMAIN rects :
              rects[k].y <= y /\ y < rects[k].y + rects[k].height

\* A 640 x 640 image planned with input tile 256, output tile 512, scale 2,
\* overlap 1/16, batch size 4 and no augmentation.
Scenario ==
    /\ pc = "planned"
    /\ renderConfig = configOf(256, 0, [x |-> 2, y |-> 2], <<1, 16>>, 4, FALSE)
    /\ input.cols = 640 /\ input.rows = 640

\* C11 as stated: the scenario's plan is 4 tiles in a 2 x 2 grid on a canvas
\* of 1280 x 1280 that the four output rectangles cover exactly.
ScenarioFourTiles ==
    Scenario =>
        /\ tileCount = 4 /\ Len(outputTileRects) = 4
        /\ Cardinality({outputTileRects[k].x : k \in DOMAIN outputTileRects}) = 2
        /\ Cardinality({outputTileRects[k].y : k \in DOMAIN outputTileRects}) = 2
        /\ output.cols = 1280 /\ output.rows = 1280
        /\ CoverExactly(outputTileRects, rectOf(output))

\* C11 amended: the scenario's plan is 9 tiles in a 3 x 3 grid (each axis
\* needs ceil((640 - 16) / 240) = 3) on a canvas of 1280 x 1280 that the nine
\* output rectangles cover exactly.
ScenarioNineTiles ==
    Scenario =>
        /\ tileCount = 9 /\ Len(outputTileRects) = 9
        /\ Cardinality({outputTileRects[k].x : k \in DOMAIN outputTileRects}) = 3
        /\ Cardinality({outputTileRects[k].y : k \in DOMAIN outputTileRects}) = 3
        /\ output.cols = 1280 /\ output.rows = 1280
        /\ CoverExactly(outputTileRects, rectOf(output))

\* The scenario has been planned.
ScenarioNineTilesWitness ==
    /\ Scenario
    /\ Len(inputTileRects) = 9
    /\ outputTileRects[9] = [x |-> 960, y |-> 960, width |-> 320, height |-> 320]

\* The finished tile of a real tile before blending: the executor's output,
\* or what the augmentation steps leave to be composited.
finishedOf(cfg, image, rect, flipBuild) ==
    LET produced == Engine(workItemTile(cfg, image, rect, ttaSize - 1), cfg)
        fold == ttaFold(cfg, image, rect, ttaSize - 1, flipBuild)
    IN  IF cfg.tta THEN finishedTile(produced, fold.sum, fold.tmp)
        ELSE Engine(workItemTile(cfg, image, rect, AugNone), cfg)

disjoint(a, b) ==
    \/ a.x + a.width <= b.x \/ b.x + b.width <= a.x
    \/ a.y + a.height <= b.y \/ b.y + b.height <= a.y

\* C12: with overlapFraction 0 on both axes the four weight masks are all
\* ones, render applies no mask (overlapping is false), the output
\* rectangles are pairwise disjoint, and when the loop has ended every canvas
\* pixel lies in exactly one output rectangle and holds that tile's finished
\* value, unmasked.
SimplePlacement ==
    (Planned /\ renderConfig.overlap.x[1] = 0 /\ renderConfig.overlap.y[1] = 0) =>
        /\ \A k \in 0 .. 3 :
              weightsOf(renderConfig)[k] = Filled(outputTileSize(renderConfig), QInt(1))
        /\ ~overlappingOf(renderConfig)
        /\ \A a \in DOMAIN outputTileRects, b \in DOMAIN outputTileRects :
              a # b => disjoint(outputTileRects[a], outputTileRects[b])
        /\ pc = "finalize" =>
              LET tiles == [k \in DOMAIN inputTileRects |->
                              finishedOf(renderConfig, input, inputTileRects[k],
                                         inPlaceFlip)]
              IN  \A r \in 0 .. output.rows - 1, c \in 0 .. output.cols - 1 :
                      \E k \in DOMAIN outputTileRects :
                          /\ inRect(outputTileRects[k], c, r)
                          /\ \A j \in DOMAIN outputTileRects :
                                inRect(outputTileRects[j], c, r) => j = k
                          /\ Cardinality({i \in DOMAIN added : added[i] = k - 1}) = 1
                          /\ output.px[r][c] =
                                tiles[k].px[r - outputTileRects[k].y]
                                           [c - outputTileRects[k].x]

\* C13 as stated: after each batch's post-processing and when render has
\* returned, the queue of work items is empty.
QueueEmptyAfterBatch ==
    pc \in {"clear", "done"} => tileIndices = <<>>

\* The work items of the tail padding among the first n steps.
paddingSteps(n, count, cfg) == Max(0, n - count * stepsPerTileOf(cfg))

\* C13 amended: post-processing removes one entry for each result of a real
\* tile and stops at the first padding entry.  After a batch without padding
\* the queue is empty (batchSize entries were removed); after the final
\* batch, and when render has returned, the queue holds that batch's padding
\* entries and nothing else.
RealEntriesDrained ==
    /\ pc = "postprocess" =>
          Len(tileIndices) = renderConfig.nbBatches - batchIndex
    /\ pc = "clear" =>
          Len(tileIndices) = paddingSteps(stepIndex + 1, tileCount, renderConfig)
    /\ pc = "done" =>
          Len(tileIndices) =
              paddingSteps(stepCountOf(tileCount, renderConfig), tileCount,
                           renderConfig)
    /\ pc \in {"clear", "finalize", "done"} =>
          /\ \A i \in DOMAIN tileIndices : tileIndices[i][1] >= tileCount
          /\ tileIndices # <<>> => Head(tileIndices)[1] = tileCount

\* render has returned after two batches, the second with two padding entries
\* that are still in the queue.
RealEntriesDrainedWitness ==
    /\ pc = "done" /\ result = <<TRUE>>
    /\ executorCalls = 2 /\ renderConfig.nbBatches = 3
    /\ tileIndices = <<<<tileCount, 0>>, <<tileCount + 1, 0>>>>

\* The input tile that belongs to the work item (tileIndex, augmentationIndex):
\* the tile's padded region under that augmentation, or zeros for padding.
tileOfItem(cfg, image, rects, count, item) ==
    IF item[1] >= count THEN Filled(inputTileSize(cfg), QInt(0))
    ELSE IF cfg.tta /\ item[2] # AugNone
    THEN applyAugmentation(padRoi(image, rects[item[1] + 1]).mat,
                           inputTileSize(cfg), item[2])
    ELSE padRoi(image, rects[item[1] + 1]).mat

\* C14: at every executor invocation the batch holds batchSize tiles and the
\* queue batchSize work items; during post-processing the front of the queue
\* is the item of slot batchIndex, the items are those of the batch's steps
\* in the order they were issued, and the input tile in each item's slot is
\* the tile of that (tileIndex, augIndex) pair.
SlotsMatchQueue ==
    /\ pc = "infer" =>
          /\ Len(inputTiles) = renderConfig.nbBatches
          /\ Len(tileIndices) = renderConfig.nbBatches
    /\ (pc = "postprocess" /\ batchIndex < renderConfig.nbBatches) =>
          /\ Len(outputTiles) = renderConfig.nbBatches
          /\ Len(tileIndices) = renderConfig.nbBatches - batchIndex
    /\ pc \in {"infer", "postprocess"} =>
          LET popped == renderConfig.nbBatches - Len(tileIndices)
              first == stepIndex - (renderConfig.nbBatches - 1)
          IN  \A i \in DOMAIN tileIndices :
                  LET slot == popped + i - 1
                  IN  /\ tileIndices[i] =
                            <<(first + slot) \div stepsPerTileOf(renderConfig),
                              (first + slot) % stepsPerTileOf(renderConfig)>>
                      /\ inputTiles[slot + 1] =
                            tileOfItem(renderConfig, input, inputTileRects,
                                       tileCount, tileIndices[i])

\* In a second batch under augmentation, the item of slot 2 is at the front
\* of the queue and is an augmented item.
SlotsMatchQueueWitness ==
    /\ pc = "postprocess" /\ renderConfig.tta
    /\ executorCalls = 2 /\ batchIndex = 2 /\ renderConfig.nbBatches = 3
    /\ Len(tileIndices) = 1 /\ Head(tileIndices)[2] = 5

\* The work items post-processing has consumed so far in this render: those
\* issued less those still in the queue.
consumed ==
    (IF pc \in {"infer", "postprocess", "clear"} THEN stepIndex + 1 ELSE stepIndex)
        - Len(tileIndices)

\* The tiles added so far are 0, 1, ... in this order, one for every
\* stepsPerTile work items consumed.
AddedInOrder ==
    pc \in {"preprocess", "infer", "postprocess", "clear", "finalize", "done"} =>
        /\ Len(added) = consumed \div stepsPerTileOf(renderConfig)
        /\ \A i \in DOMAIN added : added[i] = i - 1
        /\ pc \in {"finalize", "done"} => Len(added) = tileCount

\* A step that changes the canvas: the zero-initialisation, the addition of
\* one tile, or the final conversion.
CanvasStep ==
    output' # output =>
        \/ pc = "idle"
        \/ pc = "postprocess" /\ Len(added') = Len(added) + 1
        \/ pc = "finalize"

\* C15: in a successful render every real tile is added to the canvas once,
\* in increasing tileIndex order, and only when all of its stepsPerTile
\* results (8 with augmentation, 1 without) have been consumed; the canvas is
\* changed by no step other than the zero-initialisation, these additions
\* and the final conversion.
TilesAddedOnce == []AddedInOrder /\ [][CanvasStep]_vars

\* A successful render under augmentation has added two tiles or more.
TilesAddedOnceWitness ==
    /\ pc = "done" /\ result = <<TRUE>>
    /\ renderConfig.tta /\ renderConfig.nbBatches = 3
    /\ tileCount = 2 /\ added = <<0, 1>>

\* C16: every input tile rectangle has the executor's input tile size, every
\* output rectangle lies inside the canvas with positive width and height,
\* and an output rectangle narrower (shorter) than the output tile is in the
\* final column (row) of the grid.
TileRectsWellFormed ==
    Planned =>
        /\ \A k \in DOMAIN inputTileRects :
              /\ inputTileRects[k].width = inputTileSize(renderConfig).width
              /\ inputTileRects[k].height = inputTileSize(renderConfig).height
        /\ \A k \in DOMAIN outputTileRects :
              LET rect == outputTileRects[k]
              IN  /\ rect.width > 0 /\ rect.height > 0
                  /\ 0 <= rect.x /\ rect.x + rect.width <= output.cols
                  /\ 0 <= rect.y /\ rect.y + rect.height <= output.rows
                  /\ rect.width < outputTileSize(renderConfig).width =>
                        \A m \in DOMAIN outputTileRects :
                            outputTileRects[m].x <= rect.x
                  /\ rect.height < outputTileSize(renderConfig).height =>
                        \A m \in DOMAIN outputTileRects :
                            outputTileRects[m].y <= rect.y

\* C17: with overlap > 0, applyBlending applies the Left, Top, Right and
\* Bottom mask to a tile exactly at the edges where the tile's output
\* rectangle does not touch the canvas edge, and these are exactly the sides
\* on which the tile has a neighbour in the grid.
MasksOnInteriorEdges ==
    (pc = "planned" /\ overlappingOf(renderConfig)) =>
        \A k \in DOMAIN outputTileRects :
            LET R == outputTileRects[k]
                D == rectOf(output)
            IN  /\ appliesLeft(R, D) <=> R.x # 0
                /\ appliesTop(R, D) <=> R.y # 0
                /\ appliesRight(R, D) <=> R.x + R.width # D.width
                /\ appliesBottom(R, D) <=> R.y + R.height # D.height
                /\ appliesLeft(R, D) <=>
                      \E b \in DOMAIN outputTileRects : rightOf(outputTileRects, b, k)
                /\ appliesTop(R, D) <=>
                      \E b \in DOMAIN outputTileRects : belowOf(outputTileRects, b, k)
                /\ appliesRight(R, D) <=>
                      \E b \in DOMAIN outputTileRects : rightOf(outputTileRects, k, b)
                /\ appliesBottom(R, D) <=>
                      \E b \in DOMAIN outputTileRects : belowOf(outputTileRects, k, b)

\* The part of the extent origin .. origin + size that lies in 0 .. limit.
clippedExtent(origin, size, limit) == Min(limit, origin + size) - Max(0, origin)

\* C18: for every input rectangle of the plan, padRoi returns a tile of the
\* rectangle's width and height: the rectangle meets the image, the clipped
\* extent plus the padding on both sides is the requested extent on each
\* axis, and every pixel of the tile is the image pixel nearest to its place,
\* also when the rectangle overhangs several sides.
PadRoiExact ==
    (pc = "preprocess" /\ stepIndex = 0) =>
        \A k \in DOMAIN inputTileRects :
            LET roi == inputTileRects[k]
                tile == padRoi(input, roi)
                left == Max(0, -roi.x)
                top == Max(0, -roi.y)
                right == Max(0, roi.x + roi.width - input.cols)
                bottom == Max(0, roi.y + roi.height - input.rows)
            IN  /\ clippedExtent(roi.x, roi.width, input.cols) > 0
                /\ clippedExtent(roi.y, roi.height, input.rows) > 0
                /\ clippedExtent(roi.x, roi.width, input.cols) + left + right = roi.width
                /\ clippedExtent(roi.y, roi.height, input.rows) + top + bottom = roi.height
                /\ tile.ok
                /\ tile.mat.cols = roi.width /\ tile.mat.rows = roi.height
                /\ \A r \in 0 .. roi.height - 1, c \in 0 .. roi.width - 1 :
                      tile.mat.px[r][c] =
                          input.px[Max(0, Min(input.rows - 1, roi.y + r))]
                                  [Max(0, Min(input.cols - 1, roi.x + c))]

\* A planned input rectangle overhangs the image on all four sides.
PadRoiExactWitness ==
    /\ pc = "preprocess" /\ stepIndex = 0
    /\ \E k \in DOMAIN inputTileRects :
          /\ inputTileRects[k].x < 0 /\ inputTileRects[k].y < 0
          /\ inputTileRects[k].x + inputTileRects[k].width > input.cols
          /\ inputTileRects[k].y + inputTileRects[k].height > input.rows
          /\ input.cols >= 2 /\ input.rows >= 2

\* C19: the canvas is in its final encoding (whole values 0..255, type
\* CV_8UC3) only when render has returned true, which it does only with all
\* tileCount tiles composited; waitForCompletion has then been called once,
\* and in no state before the return has it been called at all.
SyncOnceAtEnd ==
    /\ syncs = IF pc = "done" THEN 1 ELSE 0
    /\ outputType = "CV_8UC3" <=> pc = "done"
    /\ pc \in {"preprocess", "infer", "postprocess", "clear", "finalize"} =>
          result = <<>>
    /\ pc = "done" =>
          /\ result = <<TRUE>>
          /\ Len(added) = tileCount
          /\ \A r \in 0 .. output.rows - 1, c \in 0 .. output.cols - 1 :
                output.px[r][c][2] = 1 /\ output.px[r][c][1] \in 0 .. 255

\* render has returned true after two batches or more.
SyncOnceAtEndWitness ==
    /\ pc = "done" /\ result = <<TRUE>> /\ syncs = 1
    /\ tileCount >= 2 /\ executorCalls >= 2
    /\ output.px[0][0][1] > 0

\* Where the part of an input tile that the output tile stands for begins:
\* the rectangle's origin moved in by the border the engine cuts off.
usefulOrigin(cfg, rect) ==
    [x |-> rect.x + TruncDiv(inputTileSize(cfg).width - scaledInputTileSize(cfg).width, 2),
     y |-> rect.y + TruncDiv(inputTileSize(cfg).height - scaledInputTileSize(cfg).height, 2)]

\* C20: for every supported tile size, overlap and scale, the output stride
\* (outputTileSize - scaledOutputOverlap) is the scale times the input stride
\* (scaledInputTileSize - inputOverlap), and every output rectangle begins at
\* the scale times the origin of the useful region of its input rectangle.
GridsAligned ==
    pc = "planned" =>
        /\ outputTileSize(renderConfig).width - scaledOutputOverlap(renderConfig).x
              = renderConfig.scaling.x * strideOf(renderConfig).x
        /\ outputTileSize(renderConfig).height - scaledOutputOverlap(renderConfig).y
              = renderConfig.scaling.y * strideOf(renderConfig).y
        /\ \A k \in DOMAIN outputTileRects :
              /\ outputTileRects[k].x =
                    renderConfig.scaling.x
                        * usefulOrigin(renderConfig, inputTileRects[k]).x
              /\ outputTileRects[k].y =
                    renderConfig.scaling.y
                        * usefulOrigin(renderConfig, inputTileRects[k]).y

\* C21: when render has undone a composite kind (FlipHorizontalRotate90,
\* FlipVerticalRotate90), the buffer that held the intermediate rotation is
\* not the destination buffer, and the destination holds what the flip gives
\* when it reads one buffer and writes another.
ScratchIsNotDestination ==
    (/\ pc = "postprocess" /\ renderConfig.tta /\ batchIndex >= 1
     /\ summed # <<>>
     /\ summed[2] \in {AugFlipHorizontalRotate90, AugFlipVerticalRotate90}) =>
        /\ renderReverseDst # reverseScratch
        /\ (summed[2] = AugFlipHorizontalRotate90 \/ ~overlappingOf(renderConfig)) =>
              tmpOutputMat =
                  reverseAugmentation(slotOutput(outputTiles, batchIndex - 1), FALSE,
                                      outputTileSize(renderConfig), summed[2],
                                      inPlaceFlip)

----------------------------------------------------------------------------
(* The device buffers over calls of load and the destructor (lines 19-23,  *)
(* 235-274).                                                               *)

MaxLoads == 3

\* Where a call of load ends: before the buffers are touched ("early"), at
\* the cudaFreeAsync of the buffer of that index ("free"), at the
\* cudaMallocAsync or the setTensorAddress of the tensor of that index, after
\* the buffers are set up ("late", lines 277-326), or with true ("ok").
LoadOutcomes ==
    {<<"early", 0>>, <<"free", 0>>, <<"free", 1>>, <<"malloc", 0>>, <<"malloc", 1>>,
     <<"address", 0>>, <<"address", 1>>, <<"late", 0>>, <<"ok", 0>>}

LoadConfigs ==
    {configOf(2, 0, [x |-> 1, y |-> 1], <<0, 1>>, 1, a) : a \in BOOLEAN}

\* The pointers among the first n of the list that are not null.
pointersOf(list, n) == {list[i] : i \in 1 .. Min(n, Len(list))} \ {0}

\* load, lines 153-331, as far as it concerns the object's state.
LoadCall(config, outcome) ==
    /\ pc \in {"constructed", "idle", "loadFailed"}
    /\ loads < MaxLoads
    /\ loads' = loads + 1
    /\ outcome[1] = "free" => outcome[2] < Len(buffers)
    /\ LET step == outcome[1]
           \* lines 236-248: every buffer of the list is freed and the list
           \* cleared, or the free of one throws and load returns false
           freedFirst ==
               IF step = "early" THEN {}
               ELSE IF step = "free" THEN pointersOf(buffers, outcome[2])
               ELSE pointersOf(buffers, Len(buffers))
           p0 == allocated + 1
           p1 == allocated + 2
           \* lines 250-274: the list after the allocation loop
           list ==
               CASE step \in {"early", "free"} -> buffers
                 [] step = "malloc" /\ outcome[2] = 0 -> <<0>>
                 [] step = "malloc" /\ outcome[2] = 1 -> <<p0, 0>>
                 [] step = "address" /\ outcome[2] = 0 -> <<p0>>
                 [] OTHER -> <<p0, p1>>
           \* lines 260-263: the handler of a failed allocation frees the list
           freedSecond == IF step = "malloc" THEN pointersOf(list, Len(list)) ELSE {}
       IN  /\ buffers' = list
           /\ allocated' = allocated + Cardinality(pointersOf(list, Len(list))
                                                      \ pointersOf(buffers, Len(buffers)))
           /\ released' = released \cup freedFirst \cup freedSecond
           /\ refreed' = refreed \cup (freedFirst \cap released)
           /\ IF step = "ok"
              THEN /\ renderConfig' = config
                   /\ ttaOutputTile' = IF config.tta
                                        THEN Filled(outputTileSize(config), QInt(0))
                                        ELSE EmptyMat
                   /\ tmpOutputMat' = IF config.tta
                                       THEN Filled(outputTileSize(config), QInt(0))
                                       ELSE EmptyMat
                   /\ pc' = "idle"
                   /\ result' = <<TRUE>>
              ELSE /\ renderConfig' = IF step = "late" THEN config ELSE renderConfig
                   /\ pc' = "loadFailed"
                   /\ result' = <<FALSE>>
                   /\ UNCHANGED ttaVars
    /\ UNCHANGED <<buildVars, input, output, outputType, planVars, loopVars,
                   executorCalls, syncs, ghostVars, codec>>

\* The destructor, lines 19-23: cudaFree of every buffer of the list.
Destroy ==
    /\ pc \in {"constructed", "idle", "loadFailed"}
    /\ pc' = "destroyed"
    /\ released' = released \cup pointersOf(buffers, Len(buffers))
    /\ refreed' = refreed \cup (pointersOf(buffers, Len(buffers)) \cap released)
    /\ UNCHANGED <<buildVars, renderConfig, input, output, outputType, result,
                   planVars, loopVars, ttaVars, executorCalls, syncs, ghostVars,
                   codec, buffers, allocated, loads>>

NextLoad ==
    \/ \E config \in LoadConfigs, outcome \in LoadOutcomes : LoadCall(config, outcome)
    \/ Destroy

SpecLoad == InitInfer /\ [][NextLoad]_vars

\* C22: over any sequence of calls of load, each ending anywhere, and the
\* destructor, no device pointer is freed a second time, no pointer already
\* freed is in the buffers list while the object lives, and once the object
\* is destroyed every pointer allocated has been freed.
BuffersFreedOnce ==
    /\ refreed = {}
    /\ pc # "destroyed" => pointersOf(buffers, Len(buffers)) \cap released = {}
    /\ pc = "destroyed" => released = 1 .. allocated

====
